---------------------------- MODULE Spec2Model ----------------------------
(***************************************************************************)
(* Model of the Adafruit IS31FL3741 LED driver                             *)
(* (src/Adafruit_IS31FL3741.cpp): the paged register accessor with its     *)
(* cached page, the single-LED and all-LED writes, the per-board pixel     *)
(* mappers, the glasses rings, and the buffered variant with show() and    *)
(* scale().  The chip is modelled as far as the driver can observe it: a   *)
(* command register guarded by a lock, and byte memories per page that     *)
(* auto-increment the address within one transaction.                      *)
(***************************************************************************)
EXTENDS Integers, Naturals, Sequences, FiniteSets, TLC

VARIABLES
  page,        \* Adafruit_IS31FL3741::_page, the cached selected page (-1: none yet)
  chipPage,    \* page held by the chip's command register
  chipUnlocked,\* TRUE after an acknowledged 0xC5 to the lock register
  chipMem,     \* chip memory written so far: <<page, offset>> :> byte
  ledbuf,      \* Adafruit_IS31FL3741_buffered::ledbuf, 1 pad byte + 351 PWM bytes
  rotation,    \* Adafruit_GFX rotation of the display object in use
  display,     \* the display object constructed: its class, WIDTH and HEIGHT
  brightness,  \* _brightness of the ring object in use
  canvas,      \* GFXcanvas16 buffer of the buffered glasses matrix (54 x 15)
  maxBuf,      \* _i2c_dev->maxBufferSize() of the platform
  nack,        \* ordinals of the bus writes of the current call the bus will not acknowledge
  op,          \* the operation called last and its arguments
  ret,         \* what that operation returned
  log,         \* bus writes issued by that operation, in order
  calls,       \* setLEDPWM calls made by that operation, in order
  stores,      \* frame-buffer stores made by that operation, in order
  reads,       \* remap-table reads made by that operation, in order
  allAcked,    \* TRUE while the bus has acknowledged every write since construction
  nOps,        \* number of operations called so far
  pc,          \* position inside show(): "idle" outside it
  sh,          \* locals of show(): chunk, page_bytes, ptr, addr, page
  trail        \* rotation transforms applied to a point, in order

vars == <<page, chipPage, chipUnlocked, chipMem, ledbuf, rotation, display,
          brightness, canvas, maxBuf, nack, op, ret, log, calls, stores,
          reads, allAcked, nOps, pc, sh, trail>>

---------------------------------------------------------------------------
(* Bounds of the model *)

\* operations per behaviour of the register-level specification
MaxOps == 2
\* bus writes of one call that may be chosen to fail
MaxNack == 3
\* passes of the while loop of show() followed per page: a loop that ends
\* needs at most 180, one per byte of the larger page
MaxPasses == 180

---------------------------------------------------------------------------
(* Fixed-width arithmetic *)

RECURSIVE Pow2(_)
Pow2(n) == IF n = 0 THEN 1 ELSE 2 * Pow2(n - 1)

ToUint8(v) == v % 256
ToUint16(v) == v % 65536
ToInt16(v) == LET u == v % 65536 IN IF u >= 32768 THEN u - 65536 ELSE u

Shr(a, n) == a \div Pow2(n)
Shl(a, n) == a * Pow2(n)

RECURSIVE BitAnd(_, _)
BitAnd(a, b) ==
  IF a = 0 \/ b = 0 THEN 0
  ELSE 2 * BitAnd(a \div 2, b \div 2) + (IF a % 2 = 1 /\ b % 2 = 1 THEN 1 ELSE 0)

RECURSIVE BitOr(_, _)
BitOr(a, b) ==
  IF a = 0 THEN b
  ELSE IF b = 0 THEN a
  ELSE 2 * BitOr(a \div 2, b \div 2) + (IF a % 2 = 1 \/ b % 2 = 1 THEN 1 ELSE 0)

Min(a, b) == IF a < b THEN a ELSE b

---------------------------------------------------------------------------
(* The bus and the chip behind it.  A machine m is the record               *)
(* [page, cpage, unlocked, mem, log, ok]: the driver's cached page, the     *)
(* chip's state, the writes of the current call and the result of the last  *)
(* write.                                                                   *)

Machine ==
  [page |-> page, cpage |-> chipPage, unlocked |-> chipUnlocked,
   mem |-> chipMem, log |-> <<>>, ok |-> TRUE]

\* bytes data[1..n] stored at offsets addr, addr+1, ... of page p; the
\* address register is 8 bits wide, and no transaction of the driver
\* carries more than 255 data bytes, so each offset is written at most once
StoreRun(mem, p, addr, data) ==
  LET cells == {<<p, (addr + k - 1) % 256>> : k \in 1 .. Len(data)}
  IN [c \in cells \cup DOMAIN mem |->
        IF c \in cells THEN data[((c[2] - addr) % 256) + 1] ELSE mem[c]]

\* What an acknowledged write does to the chip.
ChipEffect(m, w) ==
  CASE w.kind = "unlock" -> [m EXCEPT !.unlocked = TRUE]
    [] w.kind = "page" ->
         IF m.unlocked
           THEN [m EXCEPT !.cpage = w.data[1], !.unlocked = FALSE]
           ELSE m
    [] w.kind = "data" -> [m EXCEPT !.mem = StoreRun(m.mem, m.cpage, w.addr, w.data)]
    [] OTHER -> m

\* One bus transaction: the n-th write of the call is acknowledged unless
\* n is in nk.
I2CWrite(m, w, nk) ==
  LET n == Len(m.log) + 1
      ack == n \notin nk
      e == [kind |-> w.kind, addr |-> w.addr, data |-> w.data, ack |-> ack]
      m1 == IF ack THEN ChipEffect(m, w) ELSE m
  IN [m1 EXCEPT !.log = Append(m.log, e), !.ok = ack]

---------------------------------------------------------------------------
(* Register-level operations of Adafruit_IS31FL3741 *)

unlock(m, nk) == I2CWrite(m, [kind |-> "unlock", addr |-> 0, data |-> <<197>>], nk)

\* selectPage with the page range off by one: page 5 is taken as valid
selectPage_accepts5(m, p, nk) ==
  IF p > 5 THEN [m EXCEPT !.ok = FALSE]
  ELSE IF m.page = p THEN [m EXCEPT !.ok = TRUE]
  ELSE LET m1 == [m EXCEPT !.page = p]
           m2 == unlock(m1, nk)
       IN I2CWrite(m2, [kind |-> "page", addr |-> 0, data |-> <<p>>], nk)

\* selectPage writing the page number without unlocking first
selectPage_nounlock(m, p, nk) ==
  IF p > 4 THEN [m EXCEPT !.ok = FALSE]
  ELSE IF m.page = p THEN [m EXCEPT !.ok = TRUE]
  ELSE LET m1 == [m EXCEPT !.page = p]
       IN I2CWrite(m1, [kind |-> "page", addr |-> 0, data |-> <<p>>], nk)

selectPage(m, p, nk) ==
  IF p > 4 THEN [m EXCEPT !.ok = FALSE]
  ELSE IF m.page = p THEN [m EXCEPT !.ok = TRUE]
  ELSE LET m1 == [m EXCEPT !.page = p]
           m2 == unlock(m1, nk)
       IN I2CWrite(m2, [kind |-> "page", addr |-> 0, data |-> <<p>>], nk)

setLEDscaling(m, lednum, scale, nk) ==
  IF lednum < 180
    THEN I2CWrite(selectPage(m, 2, nk),
                  [kind |-> "data", addr |-> ToUint8(lednum), data |-> <<scale>>], nk)
  ELSE IF lednum < 351
    THEN I2CWrite(selectPage(m, 3, nk),
                  [kind |-> "data", addr |-> ToUint8(lednum - 180), data |-> <<scale>>], nk)
  ELSE [m EXCEPT !.ok = FALSE]

\* setLEDPWM with the page split off by one: LED 180 is sent to page 0
setLEDPWM_split181(m, lednum, pwm, nk) ==
  IF lednum <= 180
    THEN I2CWrite(selectPage(m, 0, nk),
                  [kind |-> "data", addr |-> ToUint8(lednum), data |-> <<pwm>>], nk)
  ELSE IF lednum < 351
    THEN I2CWrite(selectPage(m, 1, nk),
                  [kind |-> "data", addr |-> ToUint8(lednum - 180), data |-> <<pwm>>], nk)
  ELSE [m EXCEPT !.ok = FALSE]

setLEDPWM(m, lednum, pwm, nk) ==
  IF lednum < 180
    THEN I2CWrite(selectPage(m, 0, nk),
                  [kind |-> "data", addr |-> ToUint8(lednum), data |-> <<pwm>>], nk)
  ELSE IF lednum < 351
    THEN I2CWrite(selectPage(m, 1, nk),
                  [kind |-> "data", addr |-> ToUint8(lednum - 180), data |-> <<pwm>>], nk)
  ELSE [m EXCEPT !.ok = FALSE]

\* the while loops of fill() and setLEDscaling(uint8_t): 31-byte writes
\* (address, then 30 copies of v) while ledaddr < limit; base is the LED
\* index of the page's offset 0.  A write that fails ends the call.
RECURSIVE FillLoop(_, _, _, _, _, _)
FillLoop(m, ledaddr, limit, base, v, nk) ==
  IF m.ok \in BOOLEAN /\ ledaddr < limit
    THEN LET m1 == I2CWrite(m, [kind |-> "data", addr |-> ToUint8(ledaddr - base),
                                data |-> [k \in 1 .. 30 |-> v]], nk)
         IN IF ~m1.ok
              THEN [m |-> m1, ledaddr |-> ledaddr, failed |-> TRUE]
              ELSE FillLoop(m1, ToUint16(ledaddr + 30), limit, base, v, nk)
    ELSE [m |-> m, ledaddr |-> ledaddr, failed |-> FALSE]

\* both loops on the pages p0 and p1
FillPages(m, p0, p1, v, nk) ==
  LET a == FillLoop(selectPage(m, p0, nk), 0, 180, 0, v, nk)
  IN IF a.failed THEN [a.m EXCEPT !.ok = FALSE]
     ELSE LET b == FillLoop(selectPage(a.m, p1, nk), a.ledaddr, 351, 180, v, nk)
          IN [b.m EXCEPT !.ok = ~b.failed]

\* Adafruit_IS31FL3741::setLEDscaling(uint8_t), all LEDs
setLEDscalingAll(m, scale, nk) == FillPages(m, 2, 3, scale, nk)

\* Adafruit_IS31FL3741::fill
fill(m, fillpwm, nk) == FillPages(m, 0, 1, fillpwm, nk)

reset(m, nk) ==
  I2CWrite(selectPage(m, 4, nk), [kind |-> "reset", addr |-> 0, data |-> <<174>>], nk)

setGlobalCurrent(m, current, nk) ==
  I2CWrite(selectPage(m, 4, nk), [kind |-> "gcurrent", addr |-> 0, data |-> <<current>>], nk)

---------------------------------------------------------------------------
(* Remap and gamma tables, as sequences: entry i of the C array is element  *)
(* i + 1.                                                                   *)

glassesmatrix_ledmap ==
  <<
    65535, 65535, 65535, 10, 9, 8, 13, 12, 11, 16, 15, 14, 4, 3, 2,
    217, 216, 215, 220, 219, 218, 223, 222, 221, 226, 225, 224, 214, 213, 212,
    187, 186, 185, 190, 189, 188, 193, 192, 191, 196, 195, 194, 184, 183, 182,
    37, 36, 35, 40, 39, 38, 43, 42, 41, 46, 45, 44, 34, 33, 32,
    67, 66, 65, 70, 69, 68, 73, 72, 71, 76, 75, 74, 64, 63, 62,
    97, 96, 95, 100, 99, 98, 103, 102, 101, 106, 105, 104, 94, 93, 92,
    127, 126, 125, 130, 129, 128, 133, 132, 131, 136, 135, 134, 124, 123, 122,
    157, 156, 155, 160, 159, 158, 163, 162, 161, 166, 165, 164, 244, 243, 242,
    247, 246, 245, 250, 249, 248, 253, 252, 251, 256, 255, 254, 65535, 65535, 65535,
    345, 346, 347, 342, 343, 344, 267, 268, 269, 263, 264, 265, 65535, 65535, 65535,
    336, 337, 338, 333, 334, 335, 237, 238, 239, 233, 234, 235, 348, 349, 262,
    327, 328, 329, 324, 325, 326, 207, 208, 209, 203, 204, 205, 330, 331, 202,
    318, 319, 320, 315, 316, 317, 177, 178, 179, 173, 174, 175, 321, 322, 172,
    309, 310, 311, 306, 307, 308, 147, 148, 149, 143, 144, 145, 312, 313, 142,
    300, 301, 302, 297, 298, 299, 117, 118, 119, 113, 114, 115, 303, 304, 112,
    291, 292, 293, 288, 289, 290, 87, 88, 89, 83, 84, 85, 294, 295, 82,
    282, 283, 284, 279, 280, 281, 57, 58, 59, 53, 54, 55, 285, 286, 52,
    65535, 65535, 65535, 270, 271, 272, 27, 28, 29, 23, 24, 25, 276, 277, 22
  >>

left_ring_map ==
  <<
    341, 211, 210, 332, 181, 180, 323, 151, 150, 127, 126, 125, 154, 153, 152,
    163, 162, 161, 166, 165, 164, 244, 243, 242, 259, 258, 257, 169, 168, 167,
    139, 138, 137, 109, 108, 107, 79, 78, 77, 49, 48, 47, 199, 198, 197,
    229, 228, 227, 19, 18, 17, 4, 3, 2, 16, 15, 14, 13, 12, 11,
    10, 9, 8, 217, 216, 215, 7, 6, 5, 350, 241, 240
  >>

right_ring_map ==
  <<
    287, 31, 30, 278, 1, 0, 273, 274, 275, 282, 283, 284, 270, 271, 272,
    27, 28, 29, 23, 24, 25, 276, 277, 22, 20, 21, 26, 50, 51, 56,
    80, 81, 86, 110, 111, 116, 140, 141, 146, 170, 171, 176, 200, 201, 206,
    230, 231, 236, 260, 261, 266, 348, 349, 262, 233, 234, 235, 237, 238, 239,
    339, 340, 232, 327, 328, 329, 305, 91, 90, 296, 61, 60
  >>

gammaRB ==
  <<
    0, 0, 0, 0, 0, 0, 0, 0, 0, 0, 0, 0, 0, 0, 0,
    0, 0, 1, 1, 1, 1, 1, 1, 1, 1, 1, 1, 2, 2, 2,
    2, 2, 2, 2, 3, 3, 3, 3, 3, 3, 4, 4, 4, 4, 4,
    5, 5, 5, 5, 6, 6, 6, 6, 7, 7, 7, 8, 8, 8, 8,
    9, 9, 9, 10, 10, 10, 11, 11, 12, 12, 12, 13, 13, 13, 14,
    14, 15, 15, 16, 16, 16, 17, 17, 18, 18, 19, 19, 20, 20, 21,
    21, 22, 22, 23, 23, 24, 25, 25, 26, 26, 27, 27, 28, 29, 29,
    30, 31, 31, 32, 33, 33, 34, 35, 35, 36, 37, 37, 38, 39, 39,
    40, 41, 42, 42, 43, 44, 45, 45, 46, 47, 48, 49, 50, 50, 51,
    52, 53, 54, 55, 55, 56, 57, 58, 59, 60, 61, 62, 63, 64, 65,
    66, 67, 68, 69, 70, 71, 72, 73, 74, 75, 76, 77, 78, 79, 80,
    81, 82, 83, 84, 85, 86, 88, 89, 90, 91, 92, 93, 94, 96, 97,
    98, 99, 100, 102, 103, 104, 105, 107, 108, 109, 110, 112, 113, 114, 116,
    117, 118, 120, 121, 122, 124, 125, 126, 128, 129, 130, 132, 133, 135, 136,
    138, 139, 140, 142, 143, 145, 146, 148, 149, 151, 152, 154, 155, 157, 159,
    160, 162, 163, 165, 166, 168, 170, 171, 173, 175, 176, 178, 180, 181, 183,
    185, 186, 188, 190, 191, 193, 195, 197, 198, 200, 202, 204, 205, 207, 209,
    211, 213, 215, 216, 218, 220, 222, 224, 226, 228, 229, 231, 233, 235, 237,
    239, 241, 243, 245, 247, 249, 251, 253, 255
  >>

gammaG ==
  <<
    0, 0, 0, 0, 0, 0, 0, 0, 0, 0, 0, 0, 0, 0, 0,
    0, 0, 0, 0, 0, 0, 0, 0, 0, 0, 0, 0, 0, 0, 0,
    0, 0, 0, 0, 1, 1, 1, 1, 1, 1, 1, 1, 1, 1, 1,
    1, 1, 1, 1, 1, 1, 1, 1, 1, 1, 2, 2, 2, 2, 2,
    2, 2, 2, 2, 2, 2, 2, 2, 2, 2, 3, 3, 3, 3, 3,
    3, 3, 3, 3, 3, 3, 4, 4, 4, 4, 4, 4, 4, 4, 4,
    4, 5, 5, 5, 5, 5, 5, 5, 5, 6, 6, 6, 6, 6, 6,
    6, 6, 7, 7, 7, 7, 7, 7, 7, 8, 8, 8, 8, 8, 8,
    8, 9, 9, 9, 9, 9, 9, 10, 10, 10, 10, 10, 10, 11, 11,
    11, 11, 11, 11, 12, 12, 12, 12, 12, 13, 13, 13, 13, 13, 14,
    14, 14, 14, 14, 15, 15, 15, 15, 15, 16, 16, 16, 16, 16, 17,
    17, 17, 17, 18, 18, 18, 18, 19, 19, 19, 19, 20, 20, 20, 20,
    21, 21, 21, 21, 22, 22, 22, 22, 23, 23, 23, 23, 24, 24, 24,
    24, 25, 25, 25, 26, 26, 26, 26, 27, 27, 27, 28, 28, 28, 28,
    29, 29, 29, 30, 30, 30, 31, 31, 31, 32, 32, 32, 33, 33, 33,
    34, 34, 34, 34, 35, 35, 36, 36, 36, 37, 37, 37, 38, 38, 38,
    39, 39, 39, 40, 40, 40, 41, 41, 42, 42, 42, 43, 43, 43, 44,
    44, 45, 45, 45, 46, 46, 46, 47, 47, 48, 48, 48, 49, 49, 50,
    50, 50, 51, 51, 52, 52, 53, 53, 53, 54, 54, 55, 55, 55, 56,
    56, 57, 57, 58, 58, 59, 59, 59, 60, 60, 61, 61, 62, 62, 63,
    63, 64, 64, 64, 65, 65, 66, 66, 67, 67, 68, 68, 69, 69, 70,
    70, 71, 71, 72, 72, 73, 73, 74, 74, 75, 75, 76, 76, 77, 77,
    78, 78, 79, 79, 80, 80, 81, 81, 82, 83, 83, 84, 84, 85, 85,
    86, 86, 87, 87, 88, 89, 89, 90, 90, 91, 91, 92, 93, 93, 94,
    94, 95, 95, 96, 97, 97, 98, 98, 99, 99, 100, 101, 101, 102, 102,
    103, 104, 104, 105, 106, 106, 107, 107, 108, 109, 109, 110, 110, 111, 112,
    112, 113, 114, 114, 115, 116, 116, 117, 118, 118, 119, 119, 120, 121, 121,
    122, 123, 123, 124, 125, 125, 126, 127, 127, 128, 129, 130, 130, 131, 132,
    132, 133, 134, 134, 135, 136, 136, 137, 138, 139, 139, 140, 141, 141, 142,
    143, 144, 144, 145, 146, 147, 147, 148, 149, 149, 150, 151, 152, 152, 153,
    154, 155, 155, 156, 157, 158, 159, 159, 160, 161, 162, 162, 163, 164, 165,
    165, 166, 167, 168, 169, 169, 170, 171, 172, 173, 173, 174, 175, 176, 177,
    177, 178, 179, 180, 181, 182, 182, 183, 184, 185, 186, 187, 187, 188, 189,
    190, 191, 192, 192, 193, 194, 195, 196, 197, 198, 198, 199, 200, 201, 202,
    203, 204, 205, 205, 206, 207, 208, 209, 210, 211, 212, 213, 213, 214, 215,
    216, 217, 218, 219, 220, 221, 222, 223, 223, 224, 225, 226, 227, 228, 229,
    230, 231, 232, 233, 234, 235, 236, 237, 237, 238, 239, 240, 241, 242, 243,
    244, 245, 246, 247, 248, 249, 250, 251, 252, 253, 254, 255
  >>

---------------------------------------------------------------------------
(* Adafruit_GFX as the pixel mappers use it *)

\* width() of a display built WIDTH x HEIGHT: the dimensions swap for the
\* odd rotations
width(rot, W, H) == IF rot % 2 = 1 THEN H ELSE W

\* the rotation switch with case 3 mirrored about WIDTH instead of HEIGHT
RotateXY_case3width(rot, x, y, W, H) ==
  CASE rot = 1 -> <<ToInt16(W - 1 - y), x>>
    [] rot = 2 -> <<ToInt16(W - 1 - x), ToInt16(H - 1 - y)>>
    [] rot = 3 -> <<y, ToInt16(W - 1 - x)>>
    [] OTHER -> <<x, y>>

\* the rotation switch shared by every drawPixel: <<x, y>> in int16_t
RotateXY(rot, x, y, W, H) ==
  CASE rot = 1 -> <<ToInt16(W - 1 - y), x>>
    [] rot = 2 -> <<ToInt16(W - 1 - x), ToInt16(H - 1 - y)>>
    [] rot = 3 -> <<y, ToInt16(H - 1 - x)>>
    [] OTHER -> <<x, y>>

\* RGB565 to RGB888, as every drawPixel expands it
Red8(color) == ToUint8(BitOr(BitAnd(Shr(color, 8), 248), Shr(color, 13)))
\* the green expansion taking its two low bits one position too low
Green8_lowbits(color) == ToUint8(BitOr(BitAnd(Shr(color, 3), 252), BitAnd(Shr(color, 8), 3)))
Green8(color) == ToUint8(BitOr(BitAnd(Shr(color, 3), 252), BitAnd(Shr(color, 9), 3)))
Blue8(color) == ToUint8(BitOr(BitAnd(Shl(color, 3), 248), BitAnd(Shr(color, 2), 7)))

---------------------------------------------------------------------------
(* Effects of a drawing call.  An effect e is the record                    *)
(* [m, calls, reads, buf, stores]: the machine, the setLEDPWM calls made,   *)
(* the table reads made, the frame buffer and the stores made into it.      *)

Effect ==
  [m |-> Machine, calls |-> <<>>, reads |-> <<>>, buf |-> ledbuf, stores |-> <<>>]

\* _is31->setLEDPWM(lednum, pwm), result ignored; lednum converts to uint16_t
CallPWM(e, lednum, pwm, nk) ==
  [e EXCEPT !.m = setLEDPWM(e.m, ToUint16(lednum), pwm, nk),
            !.calls = Append(@, <<ToUint16(lednum), pwm>>)]

\* getBuffer()[idx] = val: getBuffer() points at ledbuf[1].  A store outside
\* ledbuf is recorded but lands outside the modelled memory.
StoreLED(e, idx, val) ==
  [e EXCEPT !.buf = IF idx + 1 \in DOMAIN e.buf
                      THEN [e.buf EXCEPT ![idx + 1] = ToUint8(val)]
                      ELSE e.buf,
            !.stores = Append(@, <<idx, ToUint8(val)>>)]

\* table[idx] for a C array given as a sequence: an index outside the array
\* reads whatever the build left there, ub
ReadTable(table, idx, ub) ==
  IF idx >= 0 /\ idx < Len(table) THEN table[idx + 1] ELSE ub

\* TRUE of every effect; evaluating it evaluates e, which keeps the
\* evaluation of a long loop from nesting one pass inside the next
Computed(e) == DOMAIN e # {}

NoteRead(e, tab, idx) == [e EXCEPT !.reads = Append(@, [tab |-> tab, idx |-> idx])]

---------------------------------------------------------------------------
(* Pixel mappers *)

\* the matrix drawPixel with the channels written in the order red, green,
\* blue instead of blue, green, red
drawPixel_rgb(e, rot, W, H, x0, y0, color, nk) ==
  LET p == RotateXY(rot, x0, y0, W, H)
      x == p[1]
      y == p[2]
  IN IF (x >= 0) /\ (x < W) /\ (y >= 0) /\ (y < H)
       THEN LET r == Red8(color)
                g == Green8(color)
                b == Blue8(color)
                offset == ToUint16((x + W * y) * 3)
                e1 == CallPWM(e, offset, r, nk)
                e2 == CallPWM(e1, offset + 1, g, nk)
            IN CallPWM(e2, offset + 2, b, nk)
       ELSE e

\* Adafruit_IS31FL3741::drawPixel, the rectangular matrix
drawPixel(e, rot, W, H, x0, y0, color, nk) ==
  LET p == RotateXY(rot, x0, y0, W, H)
      x == p[1]
      y == p[2]
  IN IF (x >= 0) /\ (x < W) /\ (y >= 0) /\ (y < H)
       THEN LET r == Red8(color)
                g == Green8(color)
                b == Blue8(color)
                offset == ToUint16((x + W * y) * 3)
                e1 == CallPWM(e, offset, b, nk)
                e2 == CallPWM(e1, offset + 1, g, nk)
            IN CallPWM(e2, offset + 2, r, nk)
       ELSE e

\* the EVB drawPixel with the column split one column late: column 10 is
\* addressed like the columns 0 .. 9
EVB_drawPixel_split10(e, rot, x0, y0, color, nk) ==
  LET W == 13
      H == 9
  IN IF (x0 >= 0) /\ (y0 >= 0) /\ (x0 < width(rot, W, H)) /\ (y0 < width(rot, W, H))
       THEN LET p == RotateXY(rot, x0, y0, W, H)
                x == p[1]
                y == p[2]
                r == Red8(color)
                g == Green8(color)
                b == Blue8(color)
                offset == IF x > 10 THEN ToUint16((x + 80 + y * 3) * 3)
                                   ELSE ToUint16((x + y * 10) * 3)
                e1 == CallPWM(e, offset, b, nk)
                e2 == CallPWM(e1, offset + 1, g, nk)
            IN CallPWM(e2, offset + 2, r, nk)
       ELSE e

\* Adafruit_IS31FL3741_EVB::drawPixel, 13 x 9
EVB_drawPixel(e, rot, x0, y0, color, nk) ==
  LET W == 13
      H == 9
  IN IF (x0 >= 0) /\ (y0 >= 0) /\ (x0 < width(rot, W, H)) /\ (y0 < width(rot, W, H))
       THEN LET p == RotateXY(rot, x0, y0, W, H)
                x == p[1]
                y == p[2]
                r == Red8(color)
                g == Green8(color)
                b == Blue8(color)
                offset == IF x > 9 THEN ToUint16((x + 80 + y * 3) * 3)
                                   ELSE ToUint16((x + y * 10) * 3)
                e1 == CallPWM(e, offset, b, nk)
                e2 == CallPWM(e1, offset + 1, g, nk)
            IN CallPWM(e2, offset + 2, r, nk)
       ELSE e

rowmap == <<8, 5, 4, 3, 2, 1, 0, 7, 6>>

\* Adafruit_IS31FL3741_QT::drawPixel, 13 x 9
QT_drawPixel(e, rot, x0, y0, color, nk, ub) ==
  LET W == 13
      H == 9
  IN IF (x0 >= 0) /\ (y0 >= 0) /\ (x0 < width(rot, W, H)) /\ (y0 < width(rot, W, H))
       THEN LET p == RotateXY(rot, x0, y0, W, H)
                x == p[1]
                y == p[2]
                r == Red8(color)
                g == Green8(color)
                b == Blue8(color)
                col == ToUint8(x)
                row == ToUint8(ReadTable(rowmap, y, ub))
                offset ==
                  IF row <= 5
                    THEN IF col < 10
                           THEN ToUint16(30 * row + col * 3)
                           ELSE ToUint16(180 + 90 + 9 * row + (col - 10) * 3)
                    ELSE IF col < 10
                           THEN ToUint16(180 + (row - 6) * 30 + col * 3)
                           ELSE ToUint16(180 + 90 + 9 * row + (col - 10) * 3)
                odd == (col = 12) \/ (col % 2 = 1)
                r_off == IF odd THEN 2 ELSE 0
                g_off == IF odd THEN 1 ELSE 2
                b_off == IF odd THEN 0 ELSE 1
                e0 == NoteRead(e, "rowmap", y)
                e1 == CallPWM(e0, offset + r_off, r, nk)
                e2 == CallPWM(e1, offset + g_off, g, nk)
            IN CallPWM(e2, offset + b_off, b, nk)
       ELSE e

\* the unbuffered glasses drawPixel without the test for the sentinel
GlassesMatrix_drawPixel_unchecked(e, rot, x0, y0, color, nk, ub) ==
  LET W == 18
      H == 5
  IN IF (x0 >= 0) /\ (y0 >= 0) /\ (x0 < width(rot, W, H)) /\ (y0 < width(rot, W, H))
       THEN LET p == RotateXY(rot, x0, y0, W, H)
                r == Red8(color)
                g == Green8(color)
                b == Blue8(color)
                x == ToInt16((p[1] * 5 + p[2]) * 3)
                bidx == ReadTable(glassesmatrix_ledmap, x, ub)
                ridx == ReadTable(glassesmatrix_ledmap, x + 1, ub)
                gidx == ReadTable(glassesmatrix_ledmap, x + 2, ub)
                e1 == NoteRead(NoteRead(NoteRead(e, "ledmap", x), "ledmap", x + 1),
                               "ledmap", x + 2)
                e2 == CallPWM(e1, bidx, b, nk)
                e3 == CallPWM(e2, ridx, r, nk)
            IN CallPWM(e3, gidx, g, nk)
       ELSE e

\* Adafruit_IS31FL3741_GlassesMatrix::drawPixel, 18 x 5, unbuffered
GlassesMatrix_drawPixel(e, rot, x0, y0, color, nk, ub) ==
  LET W == 18
      H == 5
  IN IF (x0 >= 0) /\ (y0 >= 0) /\ (x0 < width(rot, W, H)) /\ (y0 < width(rot, W, H))
       THEN LET p == RotateXY(rot, x0, y0, W, H)
                r == Red8(color)
                g == Green8(color)
                b == Blue8(color)
                x == ToInt16((p[1] * 5 + p[2]) * 3)
                bidx == ReadTable(glassesmatrix_ledmap, x, ub)
                e0 == NoteRead(e, "ledmap", x)
            IN IF bidx # 65535
                 THEN LET ridx == ReadTable(glassesmatrix_ledmap, x + 1, ub)
                          gidx == ReadTable(glassesmatrix_ledmap, x + 2, ub)
                          e1 == NoteRead(NoteRead(e0, "ledmap", x + 1), "ledmap", x + 2)
                          e2 == CallPWM(e1, bidx, b, nk)
                          e3 == CallPWM(e2, ridx, r, nk)
                      IN CallPWM(e3, gidx, g, nk)
                 ELSE e0
       ELSE e

\* Adafruit_IS31FL3741_GlassesMatrix_buffered::drawPixel, 18 x 5
GlassesMatrix_buffered_drawPixel(e, rot, x0, y0, color, ub) ==
  LET W == 18
      H == 5
      p == RotateXY(rot, x0, y0, W, H)
  IN IF (p[1] >= 0) /\ (p[1] < W) /\ (p[2] >= 0) /\ (p[2] < H)
       THEN LET x == ToInt16((p[1] * 5 + p[2]) * 3)
                bidx == ReadTable(glassesmatrix_ledmap, x, ub)
                e0 == NoteRead(e, "ledmap", x)
            IN IF bidx # 65535
                 THEN LET ridx == ReadTable(glassesmatrix_ledmap, x + 1, ub)
                          gidx == ReadTable(glassesmatrix_ledmap, x + 2, ub)
                          e1 == NoteRead(NoteRead(e0, "ledmap", x + 1), "ledmap", x + 2)
                          e2 == StoreLED(e1, bidx,
                                         BitOr(Shl(color, 3), BitAnd(Shr(color, 2), 7)))
                          e3 == StoreLED(e2, ridx,
                                         BitOr(BitAnd(Shr(color, 8), 248), Shr(color, 13)))
                      IN StoreLED(e3, gidx,
                                  BitOr(BitAnd(Shr(color, 3), 252), BitAnd(Shr(color, 9), 3)))
                 ELSE e0
       ELSE e

---------------------------------------------------------------------------
(* Glasses rings *)

\* the constructors' choice of ring_map
GlassesRing(isRight) == IF isRight THEN right_ring_map ELSE left_ring_map

\* one channel of a ring colour scaled by _brightness
RingChannel(color, shift, bright) ==
  ToUint8(Shr(ToUint16(BitAnd(Shr(color, shift), 255)) * bright, 8))

\* the three setLEDPWM calls of one ring pixel; n is already multiplied by 3
RingPixelPWM(e, n, color, bright, nk) ==
  LET r == RingChannel(color, 16, bright)
      g == RingChannel(color, 8, bright)
      b == RingChannel(color, 0, bright)
      e0 == NoteRead(NoteRead(NoteRead(e, "right_ring_map", n),
                              "right_ring_map", n + 1), "right_ring_map", n + 2)
      e1 == CallPWM(e0, right_ring_map[n + 1], b, nk)
      e2 == CallPWM(e1, right_ring_map[n + 2], r, nk)
  IN CallPWM(e2, right_ring_map[n + 3], g, nk)

\* Adafruit_IS31FL3741_GlassesRing::setPixelColor
GlassesRing_setPixelColor(e, ring_map, bright, n, color, nk) ==
  IF (n >= 0) /\ (n < 24) THEN RingPixelPWM(e, n * 3, color, bright, nk) ELSE e

\* the loop of fill() from n on.  Computed(e) has the effect of one pass
\* evaluated before the next pass is entered.
RECURSIVE RingFillFrom(_, _, _, _, _)
RingFillFrom(e, n, color, bright, nk) ==
  IF Computed(e) /\ n < 24 * 3
    THEN RingFillFrom(RingPixelPWM(e, n, color, bright, nk), n + 3, color, bright, nk)
    ELSE e

\* Adafruit_IS31FL3741_GlassesRing::fill
GlassesRing_fill(e, ring_map, bright, color, nk) == RingFillFrom(e, 0, color, bright, nk)

\* the three frame-buffer stores of one ring pixel; n is already multiplied by 3
RingPixelStore(e, n, color, bright) ==
  LET r == RingChannel(color, 16, bright)
      g == RingChannel(color, 8, bright)
      b == RingChannel(color, 0, bright)
      e0 == NoteRead(NoteRead(NoteRead(e, "right_ring_map", n),
                              "right_ring_map", n + 1), "right_ring_map", n + 2)
      e1 == StoreLED(e0, right_ring_map[n + 1], b)
      e2 == StoreLED(e1, right_ring_map[n + 2], r)
  IN StoreLED(e2, right_ring_map[n + 3], g)

\* Adafruit_IS31FL3741_buffered_GlassesRing::setPixelColor
buffered_GlassesRing_setPixelColor(e, ring_map, bright, n, color) ==
  IF (n >= 0) /\ (n < 24) THEN RingPixelStore(e, n * 3, color, bright) ELSE e

RECURSIVE BufRingFillFrom(_, _, _, _)
BufRingFillFrom(e, n, color, bright) ==
  IF Computed(e) /\ n < 24 * 3
    THEN BufRingFillFrom(RingPixelStore(e, n, color, bright), n + 3, color, bright)
    ELSE e

\* Adafruit_IS31FL3741_buffered_GlassesRing::fill
buffered_GlassesRing_fill(e, ring_map, bright, color) == BufRingFillFrom(e, 0, color, bright)

---------------------------------------------------------------------------
(* Downsampler *)

NoCanvas == <<>>
ZeroCanvas == [i \in 0 .. (54 * 15 - 1) |-> 0]

\* sum over the 3 x 3 source block of cell (x, y) of (rgb >> shift) & mask,
\* samples k .. 8 in row-major order
RECURSIVE BlockSum(_, _, _, _, _, _)
BlockSum(cv, x, y, shift, mask, k) ==
  IF k > 8 THEN 0
  ELSE LET xx == k % 3
           yy == k \div 3
           rgb == cv[(3 * y + yy) * 54 + 3 * x + xx]
       IN BitAnd(Shr(rgb, shift), mask) + BlockSum(cv, x, y, shift, mask, k + 1)

\* the loop body of scale() with the red and the blue sum exchanged
ScaleCell_swapped(e, cv, x, y, ub) ==
  LET rsum == BlockSum(cv, x, y, 0, 31, 0)
      gsum == BlockSum(cv, x, y, 5, 63, 0)
      bsum == BlockSum(cv, x, y, 11, 31, 0)
      base == ToUint16((x * 5 + y) * 3)
      bidx == ReadTable(glassesmatrix_ledmap, base, ub)
      e0 == NoteRead(e, "ledmap", base)
  IN IF bidx # 65535
       THEN LET ridx == ReadTable(glassesmatrix_ledmap, base + 1, ub)
                gidx == ReadTable(glassesmatrix_ledmap, base + 2, ub)
                e1 == NoteRead(NoteRead(e0, "ledmap", base + 1), "ledmap", base + 2)
                e2 == StoreLED(NoteRead(e1, "gammaRB", bsum), bidx,
                               ReadTable(gammaRB, bsum, ub))
                e3 == StoreLED(NoteRead(e2, "gammaRB", rsum), ridx,
                               ReadTable(gammaRB, rsum, ub))
            IN StoreLED(NoteRead(e3, "gammaG", gsum), gidx,
                        ReadTable(gammaG, gsum, ub))
       ELSE e0

\* the body of the x/y loops of scale() for output cell (x, y)
ScaleCell(e, cv, x, y, ub) ==
  LET rsum == BlockSum(cv, x, y, 11, 31, 0)
      gsum == BlockSum(cv, x, y, 5, 63, 0)
      bsum == BlockSum(cv, x, y, 0, 31, 0)
      base == ToUint16((x * 5 + y) * 3)
      bidx == ReadTable(glassesmatrix_ledmap, base, ub)
      e0 == NoteRead(e, "ledmap", base)
  IN IF bidx # 65535
       THEN LET ridx == ReadTable(glassesmatrix_ledmap, base + 1, ub)
                gidx == ReadTable(glassesmatrix_ledmap, base + 2, ub)
                e1 == NoteRead(NoteRead(e0, "ledmap", base + 1), "ledmap", base + 2)
                e2 == StoreLED(NoteRead(e1, "gammaRB", bsum), bidx,
                               ReadTable(gammaRB, bsum, ub))
                e3 == StoreLED(NoteRead(e2, "gammaRB", rsum), ridx,
                               ReadTable(gammaRB, rsum, ub))
            IN StoreLED(NoteRead(e3, "gammaG", gsum), gidx,
                        ReadTable(gammaG, gsum, ub))
       ELSE e0

\* the x/y loops of scale() from cell c on, in their order: x outer, y inner
RECURSIVE ScaleFrom(_, _, _, _)
ScaleFrom(e, cv, c, ub) ==
  IF Computed(e) /\ c < 18 * 5
    THEN ScaleFrom(ScaleCell(e, cv, c \div 5, c % 5, ub), cv, c + 1, ub)
    ELSE e

\* Adafruit_IS31FL3741_GlassesMatrix_buffered::scale
scale(e, cv, ub) == IF cv # NoCanvas THEN ScaleFrom(e, cv, 0, ub) ELSE e

---------------------------------------------------------------------------
(* Frame buffer flush *)

\* bytes buf[from .. from + n - 1] as a sequence
Bytes(buf, from, n) == [k \in 1 .. n |-> buf[from + k - 1]]

\* one pass of show() that forgets to put the saved byte back
showPass_norestore(m, buf, s, nk) ==
  LET bytesThisPass == Min(s.page_bytes, s.chunk)
      buf1 == [buf EXCEPT ![s.ptr] = s.addr]
      m1 == I2CWrite(m, [kind |-> "data", addr |-> buf1[s.ptr],
                         data |-> Bytes(buf1, s.ptr + 1, bytesThisPass)], nk)
  IN [m |-> m1,
      buf |-> buf1,
      sh |-> [s EXCEPT !.page_bytes = ToUint8(s.page_bytes - bytesThisPass),
                       !.ptr = s.ptr + bytesThisPass,
                       !.addr = ToUint8(s.addr + bytesThisPass),
                       !.passes = s.passes + 1]]

\* one pass of the while loop of show(): s holds the locals
showPass(m, buf, s, nk) ==
  LET bytesThisPass == Min(s.page_bytes, s.chunk)
      save == buf[s.ptr]
      buf1 == [buf EXCEPT ![s.ptr] = s.addr]
      m1 == I2CWrite(m, [kind |-> "data", addr |-> buf1[s.ptr],
                         data |-> Bytes(buf1, s.ptr + 1, bytesThisPass)], nk)
      buf2 == [buf1 EXCEPT ![s.ptr] = save]
  IN [m |-> m1,
      buf |-> buf2,
      sh |-> [s EXCEPT !.page_bytes = ToUint8(s.page_bytes - bytesThisPass),
                       !.ptr = s.ptr + bytesThisPass,
                       !.addr = ToUint8(s.addr + bytesThisPass),
                       !.passes = s.passes + 1]]

\* setBrightness() of the rings: the scalar is kept as given
setBrightness(s) == s

---------------------------------------------------------------------------
(* Inputs *)

\* LED indices handed to the single-LED writes: both ends of both pages and
\* the first invalid index
LedInputs == {0, 179, 180, 350, 351}
PwmInputs == {0, 255}
PageInputs == {0, 1, 4, 5}
\* bus failures during one call: none, any one write, or every write
NackSets == {{}} \cup {{k} : k \in 1 .. MaxNack} \cup {1 .. MaxNack}

\* pixel coordinates: around and beyond every display, and both int16_t extremes
CoordInputs == (-1 .. 18) \cup {-32768, 32767}
\* RGB565 colours: black, white, and 0x12C5 with three different channels
\* (16, 89, 41)
ColorInputs == {0, 65535, 4805}
\* the display objects: the rectangular matrix with three choices of
\* constructor arguments, and the boards with the sizes their constructors fix
Display(kind, W, H) == [kind |-> kind, W |-> W, H |-> H]
Displays ==
  {Display("matrix", 13, 9), Display("matrix", 9, 13), Display("matrix", 3, 2),
   Display("EVB", 13, 9), Display("QT", 13, 9),
   Display("GlassesMatrix", 18, 5), Display("GlassesMatrix_buffered", 18, 5)}
\* RGB565 colours drawn into the canvas: black, white, mid-grey 0x7BEF
CanvasColorInputs == {0, 65535, 31727, 4805}
\* bus failures during one drawing call: none, the first write, the third
\* and fourth write
DrawNackSets == {{}, {1}, {3, 4}}
\* what a read outside a uint16_t table may return
UBWords == {0, 300, 65535}
\* what a read outside a uint8_t table may return
UBBytes == {0, 255}

\* ring pixel indices, colours (0xRRGGBB) and brightness
RingPixelInputs == {-1, 0, 1, 23, 24}
RingColorInputs == {0, 16777215, 16744449, 197121}
BrightnessInputs == {0, 1, 128, 254, 255}

\* maxBufferSize() of the platforms: AVR-like 32, a size that is no divisor
\* plus one of the page sizes, 250, and sizes around the uint8_t range
MaxBufferSizes == {3, 32, 250, 256, 257, 258}

\* bus failures during one show(): any of the first writes, or one later write
ShowNackSets == NackSets \cup {{k} : k \in (MaxNack + 1) .. (2 * MaxNack)}

BoolStr(b) == IF b THEN "true" ELSE "false"

NoOp == [name |-> "none", obj |-> "none", x |-> 0, y |-> 0, v |-> 0]

\* ledbuf after construction of a statically allocated object, and after begin()
ZeroBuf == [i \in 0 .. 351 |-> 0]
\* ledbuf after stores through getBuffer(): every LED its own value
RampBuf == [i \in 0 .. 351 |-> IF i = 0 THEN 0 ELSE (i * 3) % 256]

---------------------------------------------------------------------------
(* State after construction *)

InitCommon ==
  /\ page = -1
  /\ chipUnlocked = FALSE
  /\ chipMem = <<>>
  /\ nack = {}
  /\ op = NoOp
  /\ ret = "none"
  /\ log = <<>>
  /\ calls = <<>>
  /\ stores = <<>>
  /\ reads = <<>>
  /\ allAcked = TRUE
  /\ nOps = 0
  /\ pc = "idle"
  /\ sh = [chunk |-> 0, page_bytes |-> 0, ptr |-> 0, addr |-> 0, page |-> 0, passes |-> 0]
  /\ brightness = 255
  /\ trail = <<>>

\* the register-level driver; the chip may have been left on any page
Init ==
  /\ InitCommon
  /\ chipPage \in 0 .. 4
  /\ ledbuf = ZeroBuf
  /\ rotation = 0
  /\ display = Display("matrix", 13, 9)
  /\ canvas = NoCanvas
  /\ maxBuf = 32

\* one display or ring object of any kind on a freshly powered chip
InitDraw ==
  /\ InitCommon
  /\ chipPage = 0
  /\ ledbuf = ZeroBuf
  /\ rotation = 0
  /\ display \in Displays
  /\ canvas \in IF display.kind = "GlassesMatrix_buffered"
                 THEN {NoCanvas, ZeroCanvas} ELSE {NoCanvas}
  /\ maxBuf = 32

\* a ring object on a freshly powered chip
InitRing ==
  /\ InitCommon
  /\ chipPage = 0
  /\ ledbuf = ZeroBuf
  /\ rotation = 0
  /\ display = Display("matrix", 13, 9)
  /\ canvas = NoCanvas
  /\ maxBuf = 32

\* the buffered driver with a frame composed in ledbuf
InitShow ==
  /\ InitCommon
  /\ chipPage \in 0 .. 1
  /\ ledbuf \in {ZeroBuf, RampBuf}
  /\ rotation = 0
  /\ display = Display("matrix", 13, 9)
  /\ canvas = NoCanvas
  /\ maxBuf \in MaxBufferSizes

---------------------------------------------------------------------------
(* Operations of the register-level driver, each one whole call *)

AllAck(lg) == \A k \in 1 .. Len(lg) : lg[k].ack

\* the machine after a call becomes the state
Commit(m) ==
  /\ page' = m.page
  /\ chipPage' = m.cpage
  /\ chipUnlocked' = m.unlocked
  /\ chipMem' = m.mem
  /\ log' = m.log
  /\ allAcked' = (allAcked /\ AllAck(m.log))
  /\ nOps' = nOps + 1

DriverIdle == pc = "idle" /\ nOps < MaxOps

SelectPage ==
  /\ DriverIdle
  /\ \E p \in PageInputs, nk \in NackSets :
    /\ LET m == selectPage(Machine, p, nk)
       IN /\ Commit(m)
          /\ ret' = BoolStr(m.ok)
    /\ op' = [NoOp EXCEPT !.name = "selectPage", !.x = p]
    /\ calls' = <<>> /\ stores' = <<>> /\ reads' = <<>>
    /\ UNCHANGED <<ledbuf, rotation, display, brightness, canvas, maxBuf, nack, pc, sh, trail>>

SetLEDPWM ==
  /\ DriverIdle
  /\ \E i \in LedInputs, v \in PwmInputs, nk \in NackSets :
    /\ LET m == setLEDPWM(Machine, i, v, nk)
       IN /\ Commit(m)
          /\ ret' = BoolStr(m.ok)
    /\ op' = [NoOp EXCEPT !.name = "setLEDPWM", !.x = i, !.v = v]
    /\ calls' = <<>> /\ stores' = <<>> /\ reads' = <<>>
    /\ UNCHANGED <<ledbuf, rotation, display, brightness, canvas, maxBuf, nack, pc, sh, trail>>

SetLEDscaling ==
  /\ DriverIdle
  /\ \E i \in LedInputs, v \in PwmInputs, nk \in NackSets :
    /\ LET m == setLEDscaling(Machine, i, v, nk)
       IN /\ Commit(m)
          /\ ret' = BoolStr(m.ok)
    /\ op' = [NoOp EXCEPT !.name = "setLEDscaling", !.x = i, !.v = v]
    /\ calls' = <<>> /\ stores' = <<>> /\ reads' = <<>>
    /\ UNCHANGED <<ledbuf, rotation, display, brightness, canvas, maxBuf, nack, pc, sh, trail>>

Reset ==
  /\ DriverIdle
  /\ \E nk \in NackSets :
    /\ LET m == reset(Machine, nk)
       IN /\ Commit(m)
          /\ ret' = BoolStr(m.ok)
    /\ op' = [NoOp EXCEPT !.name = "reset"]
    /\ calls' = <<>> /\ stores' = <<>> /\ reads' = <<>>
    /\ UNCHANGED <<ledbuf, rotation, display, brightness, canvas, maxBuf, nack, pc, sh, trail>>

SetGlobalCurrent ==
  /\ DriverIdle
  /\ \E c \in PwmInputs, nk \in NackSets :
    /\ LET m == setGlobalCurrent(Machine, c, nk)
       IN /\ Commit(m)
          /\ ret' = BoolStr(m.ok)
    /\ op' = [NoOp EXCEPT !.name = "setGlobalCurrent", !.v = c]
    /\ calls' = <<>> /\ stores' = <<>> /\ reads' = <<>>
    /\ UNCHANGED <<ledbuf, rotation, display, brightness, canvas, maxBuf, nack, pc, sh, trail>>

SetLEDscalingAll ==
  /\ DriverIdle
  /\ \E v \in PwmInputs, nk \in DrawNackSets :
    /\ LET m == setLEDscalingAll(Machine, v, nk)
       IN /\ Commit(m)
          /\ ret' = BoolStr(m.ok)
    /\ op' = [NoOp EXCEPT !.name = "setLEDscaling", !.obj = "all", !.v = v]
    /\ calls' = <<>> /\ stores' = <<>> /\ reads' = <<>>
    /\ UNCHANGED <<ledbuf, rotation, display, brightness, canvas, maxBuf, nack, pc, sh, trail>>

Fill ==
  /\ DriverIdle
  /\ \E v \in PwmInputs, nk \in DrawNackSets :
    /\ LET m == fill(Machine, v, nk)
       IN /\ Commit(m)
          /\ ret' = BoolStr(m.ok)
    /\ op' = [NoOp EXCEPT !.name = "fill", !.obj = "all", !.v = v]
    /\ calls' = <<>> /\ stores' = <<>> /\ reads' = <<>>
    /\ UNCHANGED <<ledbuf, rotation, display, brightness, canvas, maxBuf, nack, pc, sh, trail>>

Next ==
  \/ SelectPage
  \/ SetLEDPWM
  \/ SetLEDscaling
  \/ Reset
  \/ SetGlobalCurrent

Spec == Init /\ [][Next]_vars

\* the all-LED writes, after page selects that leave the cache in any state
NextFill ==
  \/ SelectPage
  \/ SetLEDscalingAll
  \/ Fill

SpecFill == Init /\ [][NextFill]_vars

---------------------------------------------------------------------------
(* Drawing: an object is configured, then one drawing call is made on it *)

\* the effect of a drawing call becomes the state
DrawCommit(e, name, obj, x, y, v) ==
  /\ Commit(e.m)
  /\ calls' = e.calls
  /\ reads' = e.reads
  /\ stores' = e.stores
  /\ ledbuf' = e.buf
  /\ ret' = "void"
  /\ op' = [name |-> name, obj |-> obj, x |-> x, y |-> y, v |-> v]
  /\ UNCHANGED <<rotation, display, brightness, canvas, maxBuf, nack, pc, sh, trail>>

Fresh(setup) == pc = "idle" /\ op.name \in {"none", setup}

\* Adafruit_GFX::setRotation
SetRotation ==
  /\ Fresh("setRotation")
  /\ \E r \in 0 .. 3 :
    /\ rotation' = r
    /\ op' = [NoOp EXCEPT !.name = "setRotation", !.v = r]
    /\ UNCHANGED <<page, chipPage, chipUnlocked, chipMem, ledbuf, display, brightness,
                   canvas, maxBuf, nack, ret, log, calls, stores, reads, allAcked,
                   nOps, pc, sh, trail>>

DrawPixelMatrix ==
  /\ Fresh("setRotation") /\ display.kind = "matrix"
  /\ \E x \in CoordInputs, y \in CoordInputs, c \in ColorInputs, nk \in DrawNackSets :
    /\ DrawCommit(drawPixel(Effect, rotation, display.W, display.H, x, y, c, nk),
                  "drawPixel", "matrix", x, y, c)

DrawPixelEVB ==
  /\ Fresh("setRotation") /\ display.kind = "EVB"
  /\ \E x \in CoordInputs, y \in CoordInputs, c \in ColorInputs, nk \in DrawNackSets :
    /\ DrawCommit(EVB_drawPixel(Effect, rotation, x, y, c, nk),
                  "drawPixel", "EVB", x, y, c)

DrawPixelQT ==
  /\ Fresh("setRotation") /\ display.kind = "QT"
  /\ \E x \in CoordInputs, y \in CoordInputs, c \in ColorInputs, nk \in DrawNackSets,
     ub \in UBBytes :
    /\ DrawCommit(QT_drawPixel(Effect, rotation, x, y, c, nk, ub),
                  "drawPixel", "QT", x, y, c)

DrawPixelGlasses ==
  /\ Fresh("setRotation") /\ display.kind = "GlassesMatrix"
  /\ \E x \in CoordInputs, y \in CoordInputs, c \in ColorInputs, nk \in DrawNackSets,
     ub \in UBWords :
    /\ DrawCommit(GlassesMatrix_drawPixel(Effect, rotation, x, y, c, nk, ub),
                  "drawPixel", "GlassesMatrix", x, y, c)

DrawPixelGlassesBuffered ==
  /\ Fresh("setRotation") /\ display.kind = "GlassesMatrix_buffered"
  /\ \E x \in CoordInputs, y \in CoordInputs, c \in ColorInputs, ub \in UBWords :
    /\ DrawCommit(GlassesMatrix_buffered_drawPixel(Effect, rotation, x, y, c, ub),
                  "drawPixel", "GlassesMatrix_buffered", x, y, c)

\* drawing into the 3X canvas (Adafruit_GFX): fillScreen, or the first or
\* the last pixel
CanvasDraw ==
  /\ Fresh("canvas")
  /\ \E c \in CanvasColorInputs, i \in {-1, 0, 809} :
    /\ canvas # NoCanvas
    /\ canvas' = IF i < 0 THEN [k \in DOMAIN canvas |-> c] ELSE [canvas EXCEPT ![i] = c]
    /\ op' = [NoOp EXCEPT !.name = "canvas", !.x = i, !.v = c]
    /\ UNCHANGED <<page, chipPage, chipUnlocked, chipMem, ledbuf, rotation, display,
                   brightness, maxBuf, nack, ret, log, calls, stores, reads, allAcked,
                   nOps, pc, sh, trail>>

Scale ==
  /\ Fresh("canvas") /\ display.kind = "GlassesMatrix_buffered"
  /\ \E ub \in UBBytes :
    /\ DrawCommit(scale(Effect, canvas, ub), "scale", "GlassesMatrix_buffered", 0, 0, 0)

\* setBrightness of a ring object
SetBrightness ==
  /\ Fresh("setBrightness")
  /\ \E s \in BrightnessInputs :
    /\ brightness' = setBrightness(s)
    /\ op' = [NoOp EXCEPT !.name = "setBrightness", !.v = s]
    /\ UNCHANGED <<page, chipPage, chipUnlocked, chipMem, ledbuf, rotation, display,
                   canvas, maxBuf, nack, ret, log, calls, stores, reads, allAcked,
                   nOps, pc, sh, trail>>

Rings == {"GlassesLeftRing", "GlassesRightRing"}
BufferedRings == {"buffered_GlassesLeftRing", "buffered_GlassesRightRing"}
IsRight(ring) == ring \in {"GlassesRightRing", "buffered_GlassesRightRing"}

RingSetPixelColor ==
  /\ Fresh("setBrightness")
  /\ \E ring \in Rings, n \in RingPixelInputs, c \in RingColorInputs, nk \in DrawNackSets :
    /\ DrawCommit(GlassesRing_setPixelColor(Effect, GlassesRing(IsRight(ring)),
                                            brightness, n, c, nk),
                  "setPixelColor", ring, n, 0, c)

RingFill ==
  /\ Fresh("setBrightness")
  /\ \E ring \in Rings, c \in RingColorInputs, nk \in DrawNackSets :
    /\ DrawCommit(GlassesRing_fill(Effect, GlassesRing(IsRight(ring)), brightness, c, nk),
                  "fill", ring, 0, 0, c)

BufferedRingSetPixelColor ==
  /\ Fresh("setBrightness")
  /\ \E ring \in BufferedRings, n \in RingPixelInputs, c \in RingColorInputs :
    /\ DrawCommit(buffered_GlassesRing_setPixelColor(Effect, GlassesRing(IsRight(ring)),
                                                     brightness, n, c),
                  "setPixelColor", ring, n, 0, c)

BufferedRingFill ==
  /\ Fresh("setBrightness")
  /\ \E ring \in BufferedRings, c \in RingColorInputs :
    /\ DrawCommit(buffered_GlassesRing_fill(Effect, GlassesRing(IsRight(ring)),
                                            brightness, c),
                  "fill", ring, 0, 0, c)

NextDraw ==
  \/ SetRotation
  \/ DrawPixelMatrix
  \/ DrawPixelEVB
  \/ DrawPixelQT
  \/ DrawPixelGlasses
  \/ DrawPixelGlassesBuffered
  \/ CanvasDraw
  \/ Scale

SpecDraw == InitDraw /\ [][NextDraw]_vars

NextRing ==
  \/ SetBrightness
  \/ RingSetPixelColor
  \/ RingFill
  \/ BufferedRingSetPixelColor
  \/ BufferedRingFill

SpecRing == InitRing /\ [][NextRing]_vars

---------------------------------------------------------------------------
(* Adafruit_IS31FL3741_buffered::show, one step per bus-level statement *)

\* the machine in the middle of a call: the writes so far stay in the log
MachineNow == [Machine EXCEPT !.log = log]

StepCommit(m) ==
  /\ page' = m.page
  /\ chipPage' = m.cpage
  /\ chipUnlocked' = m.unlocked
  /\ chipMem' = m.mem
  /\ log' = m.log
  /\ allAcked' = (allAcked /\ AllAck(m.log))

\* a page select before the frame is shown
PreSelectPage ==
  /\ pc = "idle" /\ op.name = "none"
  /\ \E p \in {0, 1}, nk \in {{}, {2}} :
    /\ LET m == selectPage(Machine, p, nk)
       IN /\ Commit(m)
          /\ ret' = BoolStr(m.ok)
    /\ op' = [NoOp EXCEPT !.name = "selectPage", !.x = p]
    /\ UNCHANGED <<ledbuf, rotation, display, brightness, canvas, maxBuf, nack, calls,
                   stores, reads, pc, sh, trail>>

\* lines 867-872: the locals, and the bus failures this call will meet
ShowStart ==
  /\ pc = "idle" /\ op.name # "show"
  /\ \E nk \in ShowNackSets :
    /\ nack' = nk
    /\ sh' = [chunk |-> ToUint8(maxBuf - 1), page_bytes |-> 180, ptr |-> 0,
              addr |-> 0, page |-> 0, passes |-> 0]
    /\ op' = [NoOp EXCEPT !.name = "show"]
    /\ ret' = "none"
    /\ log' = <<>>
    /\ nOps' = nOps + 1
    /\ pc' = "select"
    /\ UNCHANGED <<page, chipPage, chipUnlocked, chipMem, ledbuf, rotation, display,
                   brightness, canvas, maxBuf, calls, stores, reads, allAcked, trail>>

\* lines 873-874: selectPage(page), result ignored
ShowSelect ==
  /\ pc = "select"
  /\ StepCommit(selectPage(MachineNow, sh.page, nack))
  /\ sh' = [sh EXCEPT !.addr = 0, !.passes = 0]
  /\ pc' = "loop"
  /\ UNCHANGED <<ledbuf, rotation, display, brightness, canvas, maxBuf, nack, op, ret,
                 calls, stores, reads, nOps, trail>>

\* lines 876-890: one pass of the while loop
ShowChunk ==
  /\ pc = "loop"
  /\ sh.page_bytes # 0
  /\ sh.passes < MaxPasses
  /\ LET r == showPass(MachineNow, ledbuf, sh, nack)
     IN /\ StepCommit(r.m)
        /\ ledbuf' = r.buf
        /\ sh' = r.sh
  /\ UNCHANGED <<rotation, display, brightness, canvas, maxBuf, nack, op, ret, calls,
                 stores, reads, nOps, pc, trail>>

\* lines 892-894: the next page, or the return
ShowPageDone ==
  /\ pc = "loop"
  /\ sh.page_bytes = 0
  /\ sh' = [sh EXCEPT !.page_bytes = 171, !.page = ToUint8(sh.page + 1)]
  /\ IF sh.page + 1 < 2
       THEN pc' = "select" /\ ret' = ret
       ELSE pc' = "idle" /\ ret' = "void"
  /\ UNCHANGED <<page, chipPage, chipUnlocked, chipMem, ledbuf, rotation, display,
                 brightness, canvas, maxBuf, nack, op, log, calls, stores, reads,
                 allAcked, nOps, trail>>

NextShow ==
  \/ PreSelectPage
  \/ ShowStart
  \/ ShowSelect
  \/ ShowChunk
  \/ ShowPageDone

SpecShow == InitShow /\ [][NextShow]_vars


\* show() is one synchronous call: once entered, its next statement is
\* executed, so each of its steps is taken when it is enabled
ShowStep == ShowSelect \/ ShowChunk \/ ShowPageDone

SpecShowLive == InitShow /\ [][NextShow]_vars /\ WF_vars(ShowStep)
---------------------------------------------------------------------------
(* The rotation transform applied to a point, repeatedly *)

\* transforms applied to one point
MaxRotations == 2

\* physical sizes tried: the boards' 13 x 9, its transpose, a small one and
\* a square one
RotationDisplays ==
  {Display("matrix", 13, 9), Display("matrix", 9, 13), Display("matrix", 3, 2),
   Display("matrix", 4, 4)}

InitRotate ==
  /\ InitCommon
  /\ chipPage = 0
  /\ ledbuf = ZeroBuf
  /\ rotation = 0
  /\ display \in RotationDisplays
  /\ canvas = NoCanvas
  /\ maxBuf = 32

\* the points a transform starts from: every point that is in bounds of the
\* physical display or of the rotated one
StartPoints(W, H) ==
  {p \in (0 .. W + H) \X (0 .. W + H) :
     \/ p[1] < W /\ p[2] < H
     \/ p[1] < H /\ p[2] < W}

\* lines 270-284 for one rotation value, on a fresh point or on the result
\* of the previous transform
ApplyRotation ==
  /\ Len(trail) < MaxRotations
  /\ \E r \in 0 .. 3 :
       \E p \in IF trail = <<>> THEN StartPoints(display.W, display.H)
                ELSE {trail[Len(trail)].to} :
         LET q == RotateXY(r, p[1], p[2], display.W, display.H)
         IN /\ trail' = Append(trail, [rot |-> r, from |-> p, to |-> q])
            /\ rotation' = r
            /\ op' = [NoOp EXCEPT !.name = "rotate", !.x = q[1], !.y = q[2]]
  /\ UNCHANGED <<page, chipPage, chipUnlocked, chipMem, ledbuf, display, brightness,
                 canvas, maxBuf, nack, ret, log, calls, stores, reads, allAcked,
                 nOps, pc, sh>>

NextRotate == ApplyRotation

SpecRotate == InitRotate /\ [][NextRotate]_vars

---------------------------------------------------------------------------
(* One pixel drawn in every RGB565 colour *)

\* every 16-bit colour
ColorSpace == 0 .. 65535

\* one display object of each class
ColorDisplays == {d \in Displays : d.kind # "matrix" \/ d.W = 13}

InitColor ==
  /\ InitCommon
  /\ chipPage = 0
  /\ ledbuf = ZeroBuf
  /\ rotation = 0
  /\ display \in ColorDisplays
  /\ canvas = NoCanvas
  /\ maxBuf = 32

\* drawPixel(1, 1, c) of the display object in use, on a bus that
\* acknowledges; (1, 1) is a pixel every board has
ColorDraw ==
  /\ op.name = "none"
  /\ \E c \in ColorSpace :
       DrawCommit(
         CASE display.kind = "matrix" ->
                drawPixel(Effect, rotation, display.W, display.H, 1, 1, c, {})
           [] display.kind = "EVB" -> EVB_drawPixel(Effect, rotation, 1, 1, c, {})
           [] display.kind = "QT" -> QT_drawPixel(Effect, rotation, 1, 1, c, {}, 0)
           [] display.kind = "GlassesMatrix" ->
                GlassesMatrix_drawPixel(Effect, rotation, 1, 1, c, {}, 0)
           [] OTHER -> GlassesMatrix_buffered_drawPixel(Effect, rotation, 1, 1, c, 0),
         "drawPixel", display.kind, 1, 1, c)

NextColor == ColorDraw

SpecColor == InitColor /\ [][NextColor]_vars


---------------------------------------------------------------------------
(* The same pixel drawn on the unbuffered and on the buffered glasses matrix *)

\* both glasses matrix objects on one controller, 18 x 5
InitPair ==
  /\ InitCommon
  /\ chipPage = 0
  /\ ledbuf = ZeroBuf
  /\ rotation = 0
  /\ display = Display("GlassesMatrix", 18, 5)
  /\ canvas = NoCanvas
  /\ maxBuf = 32

\* setRotation(r) on both objects
SetRotationPair ==
  /\ op.name = "none"
  /\ \E r \in 1 .. 3 :
    /\ rotation' = r
    /\ op' = [NoOp EXCEPT !.name = "setRotation", !.v = r]
    /\ UNCHANGED <<page, chipPage, chipUnlocked, chipMem, ledbuf, display, brightness,
                   canvas, maxBuf, nack, ret, log, calls, stores, reads, allAcked,
                   nOps, pc, sh, trail>>

\* drawPixel(x, y, c) on the unbuffered object, whose setLEDPWM calls go to
\* calls, and on the buffered object, whose stores go to stores
DrawPixelPair ==
  /\ op.name \in {"none", "setRotation"}
  /\ \E x \in CoordInputs, y \in CoordInputs, c \in ColorInputs, ub \in UBWords :
       LET u == GlassesMatrix_drawPixel(Effect, rotation, x, y, c, {}, ub)
           b == GlassesMatrix_buffered_drawPixel(Effect, rotation, x, y, c, ub)
       IN DrawCommit([u EXCEPT !.buf = b.buf, !.stores = b.stores],
                     "drawPixel", "pair", x, y, c)

NextPair == SetRotationPair \/ DrawPixelPair

SpecPair == InitPair /\ [][NextPair]_vars

---------------------------------------------------------------------------
(* Every pixel of a 13 x 9 board drawn once *)

\* the boards with a wiring of their own
Boards == {Display("EVB", 13, 9), Display("QT", 13, 9)}

InitBoard ==
  /\ InitCommon
  /\ chipPage = 0
  /\ ledbuf = ZeroBuf
  /\ rotation = 0
  /\ display \in Boards
  /\ canvas = NoCanvas
  /\ maxBuf = 32

\* drawPixel(x, y, 0x12C5) for the next pixel in row order, on a bus that
\* acknowledges: the n-th call draws (n mod 13, n div 13)
DrawNextPixel ==
  /\ nOps < display.W * display.H
  /\ LET x == nOps % display.W
         y == nOps \div display.W
     IN DrawCommit(
          IF display.kind = "EVB" THEN EVB_drawPixel(Effect, rotation, x, y, 4805, {})
          ELSE QT_drawPixel(Effect, rotation, x, y, 4805, {}, 0),
          "drawPixel", display.kind, x, y, 4805)

NextBoard == DrawNextPixel

SpecBoard == InitBoard /\ [][NextBoard]_vars
---------------------------------------------------------------------------
(* Properties *)

\* the split of the 351 LED indices over the two pages, as the spec states it
PageOfLED(i) == IF i < 180 THEN 0 ELSE 1
OffsetOfLED(i) == IF i < 180 THEN i ELSE i - 180

\* C1: setLEDPWM(i, v) with 0 <= i <= 350 whose bus writes are all
\* acknowledged returns true, leaves page 0 selected for i < 180 and page 1
\* for i >= 180, issues nothing but the unlock and the select of that page
\* before its last write, and that last write is the byte pair
\* (i, v) resp. (i - 180, v); on a bus that has acknowledged everything since
\* construction the chip is on that page and holds v at that offset.
C1_SetLEDPWMSelectsPageAndWrites ==
  (op.name = "setLEDPWM" /\ op.x >= 0 /\ op.x <= 350 /\ AllAck(log)) =>
    LET pg == PageOfLED(op.x)
        off == OffsetOfLED(op.x)
    IN /\ ret = "true"
       /\ page = pg
       /\ Len(log) \in {1, 3}
       /\ log[Len(log)] = [kind |-> "data", addr |-> off, data |-> <<op.v>>, ack |-> TRUE]
       /\ Len(log) = 3 => /\ log[1].kind = "unlock"
                          /\ log[2].kind = "page"
                          /\ log[2].data = <<pg>>
       /\ allAcked => /\ chipPage = pg
                      /\ <<pg, off>> \in DOMAIN chipMem
                      /\ chipMem[<<pg, off>>] = op.v

C1_Witness ==
  /\ op.name = "setLEDPWM" /\ op.x = 350 /\ op.v = 255
  /\ AllAck(log) /\ Len(log) = 3 /\ allAcked
  /\ ret = "true" /\ page = 1

InvalidCall(o) ==
  \/ o.name \in {"setLEDPWM", "setLEDscaling"} /\ o.x > 350
  \/ o.name = "selectPage" /\ o.x > 4

C3_BusFailurePropagated ==
  (op.name \in {"setLEDPWM", "setLEDscaling", "reset", "setGlobalCurrent"}
     /\ ~AllAck(log)) => ret = "false"

\* the rotation transform as the spec states it, on unbounded integers
Rotated(rot, x, y, W, H) ==
  CASE rot = 1 -> <<W - 1 - y, x>>
    [] rot = 2 -> <<W - 1 - x, H - 1 - y>>
    [] rot = 3 -> <<y, H - 1 - x>>
    [] OTHER -> <<x, y>>

InDisplay(p, W, H) == p[1] >= 0 /\ p[1] < W /\ p[2] >= 0 /\ p[2] < H

\* C4: a drawPixel of any variant whose coordinate after the rotation
\* transform lies outside [0, WIDTH) x [0, HEIGHT) makes no setLEDPWM call,
\* no bus write and no frame-buffer store, and reads no remap table entry.
C4_OutOfBoundsIsNoOp ==
  (op.name = "drawPixel"
     /\ ~InDisplay(Rotated(rotation, op.x, op.y, display.W, display.H),
                   display.W, display.H)) =>
    (calls = <<>> /\ log = <<>> /\ stores = <<>> /\ reads = <<>>)

\* C5: the rectangular matrix drawPixel(x, y, color) maps (x, y) by the
\* rotation to (x', y') and, when that is in bounds, makes exactly three
\* setLEDPWM calls, to (x' + WIDTH * y') * 3 + 0, + 1, + 2 with the blue,
\* green and red value in this order.
C5_MatrixMapping ==
  (op.name = "drawPixel" /\ op.obj = "matrix") =>
    LET p == Rotated(rotation, op.x, op.y, display.W, display.H)
        base == (p[1] + display.W * p[2]) * 3
    IN InDisplay(p, display.W, display.H) =>
         calls = << <<base, Blue8(op.v)>>, <<base + 1, Green8(op.v)>>,
                    <<base + 2, Red8(op.v)>> >>

C5_Witness ==
  /\ op.name = "drawPixel" /\ op.obj = "matrix"
  /\ rotation = 1 /\ display.W = 13 /\ op.x = 2 /\ op.y = 3 /\ op.v = 4805
  /\ calls = << <<105, 41>>, <<106, 89>>, <<107, 16>> >>

\* the writes of a ring or matrix call, wherever they go: <<LED index, value>>
Writes == IF stores # <<>> THEN stores ELSE calls

RingOp == op.name \in {"setPixelColor", "fill"} /\ op.obj \in Rings \cup BufferedRings

\* the LED indices a ring call on pixels first .. last has to write, from map
RingIndices(map, first, last) ==
  [k \in 1 .. 3 * (last - first + 1) |-> map[3 * first + k]]

\* C6: setPixelColor(n, color) with n in 0 .. 23, and fill(color), on a
\* left ring write to left_ring_map[3n], [3n+1], [3n+2] and on a right ring
\* to the same entries of right_ring_map.
C6_RingsUseTheirOwnMap ==
  RingOp =>
    LET map == IF IsRight(op.obj) THEN right_ring_map ELSE left_ring_map
        want == IF op.name = "fill" THEN RingIndices(map, 0, 23)
                ELSE IF op.x \in 0 .. 23 THEN RingIndices(map, op.x, op.x)
                ELSE <<>>
    IN [k \in 1 .. Len(Writes) |-> Writes[k][1]] = want

\* channel k (1: blue, 2: red, 3: green, the order of the writes) of 0xRRGGBB
RingChannelOf(color, k) ==
  CASE k % 3 = 1 -> color % 256
    [] k % 3 = 2 -> (color \div 65536) % 256
    [] OTHER -> (color \div 256) % 256

\* C7: the value a ring write stores for a channel c at brightness s is
\* floor(c * s / 255).
C7_RingBrightnessScaling ==
  RingOp =>
    \A k \in 1 .. Len(Writes) :
      Writes[k][2] = (RingChannelOf(op.v, k) * brightness) \div 255

\* cells x * 5 + y of the glasses matrix table whose entry is the sentinel
SentinelCells == {c \in 0 .. 89 : glassesmatrix_ledmap[3 * c + 1] = 65535}
LiveCells == SelectSeq([c \in 1 .. 90 |-> c - 1], LAMBDA c : c \notin SentinelCells)

GlassesOp ==
  op.name \in {"drawPixel", "scale"}
    /\ op.obj \in {"GlassesMatrix", "GlassesMatrix_buffered"}

\* C8: the sentinel cells are (0,0), (8,4), (9,4) and (17,0); a drawPixel
\* (unbuffered or buffered) that resolves to one of them reads the cell's
\* first entry and makes no setLEDPWM call and no frame-buffer store;
\* scale() stores exactly the three table indices of every other cell, in
\* the order of its loops, and nothing for a sentinel cell; no call or
\* store of these operations is made with the index 65535 read from the
\* table.
C8_SentinelNeverWritten ==
  /\ SentinelCells = {0 * 5 + 0, 8 * 5 + 4, 9 * 5 + 4, 17 * 5 + 0}
  /\ GlassesOp =>
       /\ (op.name = "drawPixel" /\ reads # <<>>
             /\ reads[1].idx \in {3 * c : c \in SentinelCells}) =>
            (Len(reads) = 1 /\ calls = <<>> /\ stores = <<>> /\ log = <<>>
               /\ ledbuf = ZeroBuf)
       /\ (op.name = "scale" /\ canvas # NoCanvas) =>
            /\ calls = <<>>
            /\ Len(stores) = 3 * Len(LiveCells)
            /\ \A j \in 1 .. Len(LiveCells), t \in 1 .. 3 :
                 stores[3 * (j - 1) + t][1] = glassesmatrix_ledmap[3 * LiveCells[j] + t]
       /\ \A k \in 1 .. Len(Writes) : Writes[k][1] # 65535
       /\ \A k \in 1 .. Len(reads) :
            (reads[k].tab = "ledmap" /\ reads[k].idx \in {3 * c : c \in SentinelCells}) =>
              \A j \in 1 .. Len(reads) :
                reads[j].tab = "ledmap" =>
                  reads[j].idx \notin {reads[k].idx + 1, reads[k].idx + 2}

C8_Witness ==
  /\ op.name = "drawPixel" /\ op.obj = "GlassesMatrix"
  /\ rotation = 2 /\ op.x = 9 /\ op.y = 0 /\ op.v = 65535
  /\ reads = <<[tab |-> "ledmap", idx |-> (8 * 5 + 4) * 3]>>
  /\ calls = <<>> /\ log = <<>>

\* the chip's PWM pages hold the frame buffer
Mirrors ==
  /\ \A i \in 0 .. 179 :
       <<0, i>> \in DOMAIN chipMem /\ chipMem[<<0, i>>] = ledbuf[1 + i]
  /\ \A j \in 0 .. 170 :
       <<1, j>> \in DOMAIN chipMem /\ chipMem[<<1, j>>] = ledbuf[1 + 180 + j]

ShowReturned == op.name = "show" /\ pc = "idle"

\* C9: after show() returns with every bus write acknowledged, for a bus
\* maximum transfer size M >= 2, page 0 offset i of the chip holds the
\* buffered value of LED i, page 1 offset j that of LED 180 + j, and no
\* transaction carries more than M bytes.
C9_ShowMirrorsFrameBuffer ==
  (ShowReturned /\ AllAck(log) /\ maxBuf >= 2) =>
    /\ Mirrors
    /\ \A k \in 1 .. Len(log) : Len(log[k].data) + 1 <= maxBuf

\* C10: during show(), after the first chunked write that fails no further
\* chunk is transmitted, and the caller is given a failure indication.
C10_ShowAbortsOnFailure ==
  op.name = "show" =>
    /\ \A j, k \in 1 .. Len(log) :
         (j < k /\ log[j].kind = "data" /\ ~log[j].ack) => log[k].kind # "data"
    /\ (pc = "idle" /\ \E j \in 1 .. Len(log) : log[j].kind = "data" /\ ~log[j].ack)
         => ret = "false"


\* C11: show() leaves the frame buffer unchanged: every step of a show()
\* call, whatever the transfer size and whichever writes fail, ends with all
\* 352 bytes of the buffer (pad byte and 351 PWM bytes) holding the values
\* they held before it, so the buffer at the return is the buffer at the call.
C11_ShowKeepsFrameBuffer ==
  [][op'.name = "show" => (DOMAIN ledbuf' = 0 .. 351 /\ ledbuf' = ledbuf)]_vars

C11_Witness ==
  /\ ShowReturned /\ maxBuf = 3 /\ ledbuf = RampBuf
  /\ Len(log) > 175 /\ ~AllAck(log)

\* ceil(a / b) for b > 0
CeilDiv(a, b) == (a + b - 1) \div b

\* the chunk writes of the call, in the order sent
DataWrites == SelectSeq(log, LAMBDA w : w.kind = "data")

\* C12: for every transfer size M >= 2 a show() that has returned has sent
\* ceil(180 / (M - 1)) chunks for page 0 followed by ceil(171 / (M - 1)) for
\* page 1, and the address byte of the k-th chunk (k = 0, 1, ...) of a page
\* is k * (M - 1).
C12_FlushChunking ==
  (ShowReturned /\ maxBuf >= 2) =>
    LET n0 == CeilDiv(180, maxBuf - 1)
        n1 == CeilDiv(171, maxBuf - 1)
    IN /\ Len(DataWrites) = n0 + n1
       /\ \A k \in 0 .. n0 - 1 : DataWrites[k + 1].addr = k * (maxBuf - 1)
       /\ \A k \in 0 .. n1 - 1 : DataWrites[n0 + k + 1].addr = k * (maxBuf - 1)

\* C13: in scale() every red/blue sum is an index of the 279-entry gammaRB
\* table and every green sum an index of the 567-entry gammaG table, so no
\* gamma lookup reads outside its table.
C13_GammaIndexInRange ==
  op.name = "scale" =>
    \A k \in 1 .. Len(reads) :
      /\ reads[k].tab = "gammaRB" => reads[k].idx \in 0 .. Len(gammaRB) - 1
      /\ reads[k].tab = "gammaG" => reads[k].idx \in 0 .. Len(gammaG) - 1

\* entry i (from 0) of a C array
Entry(table, i) == table[i + 1]

\* a 5- or 6-bit component of source pixel (px, py) of the 54-wide canvas
Component(cv, px, py, shift, mask) == (cv[py * 54 + px] \div Pow2(shift)) % (mask + 1)

\* the sum of a component over the nine source pixels of output cell (x, y)
NineSum(cv, x, y, shift, mask) ==
    Component(cv, 3 * x, 3 * y, shift, mask)
  + Component(cv, 3 * x + 1, 3 * y, shift, mask)
  + Component(cv, 3 * x + 2, 3 * y, shift, mask)
  + Component(cv, 3 * x, 3 * y + 1, shift, mask)
  + Component(cv, 3 * x + 1, 3 * y + 1, shift, mask)
  + Component(cv, 3 * x + 2, 3 * y + 1, shift, mask)
  + Component(cv, 3 * x, 3 * y + 2, shift, mask)
  + Component(cv, 3 * x + 1, 3 * y + 2, shift, mask)
  + Component(cv, 3 * x + 2, 3 * y + 2, shift, mask)

\* the frame-buffer positions (LED i at ledbuf[1 + i]) of the live cells
LiveBytes ==
  {1 + glassesmatrix_ledmap[3 * LiveCells[j] + t] : j \in 1 .. Len(LiveCells), t \in 1 .. 3}

Consecutive(k, r1, r2) ==
  k + 1 <= Len(trail) /\ trail[k].rot = r1 /\ trail[k + 1].rot = r2
    /\ trail[k + 1].from = trail[k].to

\* C15 as stated: the rotation-0 transform is the identity, the rotation-2
\* transform applied twice returns the original point, and the rotation-1
\* transform followed by the rotation-3 transform returns the original
\* point, for fixed WIDTH and HEIGHT.
C15_RotationRoundTrip ==
  \A k \in 1 .. Len(trail) :
    /\ trail[k].rot = 0 => trail[k].to = trail[k].from
    /\ Consecutive(k, 2, 2) => trail[k + 1].to = trail[k].from
    /\ Consecutive(k, 1, 3) => trail[k + 1].to = trail[k].from

\* C15, amended: the rotation-0 transform is the identity, the rotation-2
\* transform applied twice returns the original point, and the rotation-1
\* transform followed by the rotation-3 transform maps (x, y) to
\* (x, y + HEIGHT - WIDTH), the original point exactly when WIDTH = HEIGHT.
C15_RotationRoundTripSquare ==
  \A k \in 1 .. Len(trail) :
    /\ trail[k].rot = 0 => trail[k].to = trail[k].from
    /\ Consecutive(k, 2, 2) => trail[k + 1].to = trail[k].from
    /\ Consecutive(k, 1, 3) =>
         /\ trail[k + 1].to =
              <<trail[k].from[1], trail[k].from[2] + display.H - display.W>>
         /\ (trail[k + 1].to = trail[k].from) <=> (display.W = display.H)

C15_Witness ==
  /\ display.W = 4 /\ display.H = 4
  /\ Consecutive(1, 1, 3)
  /\ trail[1].from = <<1, 2>> /\ trail[1].to = <<1, 1>> /\ trail[2].to = <<1, 2>>

\* the setLEDPWM calls of the operation, as a set of <<LED index, value>>
CallSet == {calls[k] : k \in 1 .. Len(calls)}

\* the lowest LED index the operation wrote
BaseOffset == CHOOSE b \in {calls[k][1] : k \in 1 .. Len(calls)} :
                \A k \in 1 .. Len(calls) : b <= calls[k][1]

\* C16: a QT drawPixel that draws physical column col writes, from its
\* base offset, blue, green, red to +0, +1, +2 when col is odd or is 12, and
\* red, green, blue to +0, +1, +2 for every other column.
C16_QTChannelOrder ==
  (op.name = "drawPixel" /\ op.obj = "QT" /\ calls # <<>>
     /\ InDisplay(Rotated(rotation, op.x, op.y, 13, 9), 13, 9)) =>
    LET col == Rotated(rotation, op.x, op.y, 13, 9)[1]
        r == Red8(op.v)
        g == Green8(op.v)
        b == Blue8(op.v)
    IN /\ Len(calls) = 3
       /\ IF col = 12 \/ col % 2 = 1
            THEN CallSet = {<<BaseOffset, b>>, <<BaseOffset + 1, g>>, <<BaseOffset + 2, r>>}
            ELSE CallSet = {<<BaseOffset, r>>, <<BaseOffset + 1, g>>, <<BaseOffset + 2, b>>}

\* the positions, among the three writes of a drawPixel, of the red, green
\* and blue value: each class writes the channels in its own order
ChannelOrder(obj) ==
  CASE obj \in {"matrix", "EVB"} -> <<3, 2, 1>>
    [] obj = "QT" -> <<1, 2, 3>>
    [] OTHER -> <<2, 3, 1>>

\* C17: for every 16-bit colour the red, green and blue value a drawPixel
\* of any class writes are (r5 << 3) | (r5 >> 2), (g6 << 2) | (g6 >> 4) and
\* (b5 << 3) | (b5 >> 2), each in 0 .. 255; 0xFFFF gives (255, 255, 255) and
\* 0x0000 gives (0, 0, 0); the buffered glasses matrix stores the values the
\* unbuffered classes send.
C17_ColorExpansion ==
  op.name = "drawPixel" =>
    LET r5 == (op.v \div 2048) % 32
        g6 == (op.v \div 32) % 64
        b5 == op.v % 32
        at == ChannelOrder(op.obj)
        rgb == <<r5 * 8 + r5 \div 4, g6 * 4 + g6 \div 16, b5 * 8 + b5 \div 4>>
    IN /\ Len(Writes) = 3
       /\ (op.obj = "GlassesMatrix_buffered") <=> (stores # <<>>)
       /\ <<Writes[at[1]][2], Writes[at[2]][2], Writes[at[3]][2]>> = rgb
       /\ \A k \in 1 .. 3 : rgb[k] \in 0 .. 255
       /\ op.v = 65535 => rgb = <<255, 255, 255>>
       /\ op.v = 0 => rgb = <<0, 0, 0>>

C17_Witness ==
  /\ op.name = "drawPixel" /\ op.obj = "GlassesMatrix_buffered" /\ op.v = 4805
  /\ stores = << <<glassesmatrix_ledmap[3 * 6 + 1], 41>>,
                 <<glassesmatrix_ledmap[3 * 6 + 2], 16>>,
                 <<glassesmatrix_ledmap[3 * 6 + 3], 89>> >>

\* C18: an EVB drawPixel whose rotated coordinate (x, y) has 0 <= x < 13 and
\* 0 <= y < 9 writes blue, green, red to base, base + 1, base + 2, where
\* base = (x + y * 10) * 3 for x in 0 .. 9 and (x + 80 + y * 3) * 3 for x in
\* 10 .. 12.
C18_EVBMapping ==
  (op.name = "drawPixel" /\ op.obj = "EVB") =>
    LET p == Rotated(rotation, op.x, op.y, 13, 9)
        base == IF p[1] <= 9 THEN (p[1] + p[2] * 10) * 3
                ELSE (p[1] + 80 + p[2] * 3) * 3
    IN InDisplay(p, 13, 9) =>
         calls = << <<base, Blue8(op.v)>>, <<base + 1, Green8(op.v)>>,
                    <<base + 2, Red8(op.v)>> >>

\* the chip cells of page p written so far
CellsOfPage(p) == {c \in DOMAIN chipMem : c[1] = p}

\* C19: on a bus that acknowledges every write, fill(v) returns true and
\* leaves v at page 0 offsets 0 .. 179 and page 1 offsets 0 .. 170, the cells
\* of LEDs 0 .. 350, and no cell of page 1 above offset 170 is written; the
\* all-LED setLEDscaling(v) does the same on pages 2 and 3.
C19_FillCoversExactlyTheLEDs ==
  (op.obj = "all" /\ allAcked) =>
    LET p0 == IF op.name = "fill" THEN 0 ELSE 2
    IN /\ ret = "true"
       /\ \A i \in 0 .. 179 : <<p0, i>> \in DOMAIN chipMem /\ chipMem[<<p0, i>>] = op.v
       /\ \A j \in 0 .. 170 :
            <<p0 + 1, j>> \in DOMAIN chipMem /\ chipMem[<<p0 + 1, j>>] = op.v
       /\ \A c \in CellsOfPage(p0) : c[2] <= 179
       /\ \A c \in CellsOfPage(p0 + 1) : c[2] <= 170

\* C20: every write of a page number to the command register is immediately
\* preceded on the bus by the write of 0xC5 to the lock register, and
\* selectPage(p) with p the cached page issues no bus transaction, returns
\* true and leaves the cache and the chip as they were.
C20_PageSwitchProtocol ==
  [][/\ \A k \in 1 .. Len(log') :
          log'[k].kind = "page" =>
            k > 1 /\ log'[k - 1].kind = "unlock" /\ log'[k - 1].data = <<197>>
     /\ (nOps' = nOps + 1 /\ op'.name = "selectPage" /\ op'.x = page) =>
          /\ log' = <<>> /\ ret' = "true"
          /\ page' = page /\ chipPage' = chipPage /\ chipMem' = chipMem
          /\ chipUnlocked' = chipUnlocked]_vars

C20_Witness ==
  /\ nOps = 2 /\ op.name = "selectPage" /\ op.x = 4 /\ page = 4
  /\ log = <<>> /\ ret = "true" /\ chipPage = 4

\* C21: once the driver has selected a page, the cached page _page equals
\* the page held by the chip's command register, whatever bus writes were
\* acknowledged or failed; and an acknowledged data write of setLEDPWM(i, v)
\* with i <= 350 lands on the page of LED i.
C21_PageCacheConsistent ==
  /\ page # -1 => page = chipPage
  /\ (op.name = "setLEDPWM" /\ op.x <= 350 /\ log # <<>> /\ log[Len(log)].ack) =>
       chipPage = PageOfLED(op.x)

\* C22: for every maximum transfer size M >= 2 the 8-bit chunk size of
\* show() is not 0, every pass of its loop takes bytes off the page, and
\* every show() that was called returns.
C22_ShowTerminates ==
  /\ [](op.name = "show" /\ maxBuf >= 2 => sh.chunk # 0)
  /\ [][(pc = "loop" /\ sh'.passes = sh.passes + 1 /\ maxBuf >= 2) =>
          sh'.page_bytes < sh.page_bytes]_vars
  /\ (pc # "idle" /\ maxBuf >= 2) ~> (pc = "idle")

\* C23: for every rotation, every (x, y) and every colour the pairs
\* (LED index, value) the unbuffered glasses matrix drawPixel hands to
\* setLEDPWM are the pairs the buffered drawPixel stores in the frame
\* buffer, both none when the pixel is clipped or its cell holds the sentinel.
C23_BufferedAgreesWithUnbuffered ==
  (op.name = "drawPixel" /\ op.obj = "pair") =>
    {calls[k] : k \in 1 .. Len(calls)} = {stores[k] : k \in 1 .. Len(stores)}

\* the chip cells of the LED indices 0 .. 350
LEDCells == {<<PageOfLED(i), OffsetOfLED(i)>> : i \in 0 .. 350}

\* C24: on the EVB and on the QT board, drawing the pixels (x, y) with
\* 0 <= x < 13 and 0 <= y < 9 one after the other, every drawPixel makes
\* three setLEDPWM calls with indices in 0 .. 350 that all succeed, no
\* index is written twice (n pixels drawn occupy 3n chip cells), and the
\* 117 pixels together write exactly the cells of the LEDs 0 .. 350.
C24_BoardMappingsAreBijections ==
  (op.name = "drawPixel" /\ op.obj \in {"EVB", "QT"}) =>
    /\ Len(calls) = 3
    /\ \A k \in 1 .. 3 : calls[k][1] \in 0 .. 350
    /\ AllAck(log) /\ Len(SelectSeq(log, LAMBDA w : w.kind = "data")) = 3
    /\ Cardinality(DOMAIN chipMem) = 3 * nOps
    /\ DOMAIN chipMem \subseteq LEDCells
    /\ nOps = 13 * 9 => DOMAIN chipMem = LEDCells

C24_Witness ==
  /\ op.name = "drawPixel" /\ op.obj = "QT" /\ op.x = 12 /\ op.y = 8
  /\ nOps = 117 /\ Cardinality(DOMAIN chipMem) = 351
  /\ calls = << <<332, 16>>, <<331, 89>>, <<330, 41>> >>
=============================================================================
